---- MODULE Spec2Model ----
(***************************************************************************)
(* A model of the bounded sprite of game/objects/sprite.js: position,      *)
(* previous position, centre, velocity, facing direction, seek target and  *)
(* clamping rectangle, driven by move, moveTo and setBounds.               *)
(*                                                                         *)
(* Numbers.  A JavaScript Number is modelled on the integer grid.  Sums,   *)
(* differences and products of grid values are exact; the one operation    *)
(* that leaves the grid, the division by 1000 of the seek increment, is    *)
(* rounded to the nearest grid value (ties to even), as IEEE-754 rounds a  *)
(* result to the nearest representable double.  Sizes are even so that     *)
(* width/2 and height/2 are grid values.                                   *)
(*                                                                         *)
(* Optional values.  A JavaScript value that may be undefined (an omitted  *)
(* argument, a missing field of a rectangle, target.active before the      *)
(* first moveTo) is a sequence: << >> is undefined, <<v>> is the value v.  *)
(* Arithmetic on undefined gives NaN, and every comparison with undefined  *)
(* or NaN is false, so one value stands for both.                          *)
(*                                                                         *)
(* The driver.  The second part models the Game class of game/main.js, the *)
(* owner of the player sprite: its state, frame, input, playlist, audio    *)
(* context and persisted mute flag, the animation-frame callbacks and      *)
(* asset loads in flight, and one action per event the browser delivers.   *)
(* An exception thrown in a handler ends the handler where it is thrown    *)
(* and keeps the assignments made before it.  The driver holds the         *)
(* player's position only to draw it, so the driver's actions count the    *)
(* calls of player.move and leave sprite as it is.                         *)
(***************************************************************************)
EXTENDS Integers, Sequences, FiniteSets, TLC

VARIABLES sprite, call, game

vars == <<sprite, call, game>>

----------------------------------------------------------------------------
(* JavaScript values *)

undefined == << >>

Num(n) == <<n>>

IsNum(v) == Len(v) = 1

Val(v) == v[1]

\* a truthiness test, as in `if (this.target.active)`
Truthy(v) == v = <<TRUE>>

\* a || b for an optional number a: 0 and undefined are falsy
OrElse(a, b) == IF IsNum(a) /\ Val(a) # 0 THEN Val(a) ELSE b

\* a || b for an optional string a
OrElseStr(a, b) == IF Len(a) = 1 THEN a[1] ELSE b

\* a - b where a may be undefined: undefined - b is NaN
SubOpt(a, b) == IF IsNum(a) THEN Num(Val(a) - b) ELSE undefined

Abs(n) == IF n < 0 THEN -n ELSE n

\* n / d rounded to the nearest integer, ties to even (d > 0)
RoundDiv(n, d) ==
    LET q == n \div d
        r == n % d
    IN  IF 2 * r < d THEN q
        ELSE IF 2 * r > d THEN q + 1
        ELSE IF q % 2 = 0 THEN q ELSE q + 1

----------------------------------------------------------------------------
(* Bounds of the model *)

\* coordinates are explored up to MaxOutside outside the largest rectangle
MaxOutside == 1

\* time scales are 0 .. MaxScale
MaxScale == 1

\* the divisor of the seek increment
SeekDivisor == 1000

Deltas == {-1, 0, 1}

TimeScales == 0 .. MaxScale

\* constructor arguments; x = 5 lies outside the clamping range of every
\* rectangle below, and is a target coordinate of moveTo
InitXs == {0, 5}

InitYs == {0}

Widths == {2}

Heights == {2}

SpeedArgs == {undefined, Num(500), Num(1000), Num(2000)}

DirectionArgs == {undefined, <<"left">>}

\* rectangles handed to the constructor and to setBounds; a field that is
\* not supplied is undefined
Rect(t, r, b, l) == [top |-> t, right |-> r, bottom |-> b, left |-> l]

Screen == Rect(Num(0), Num(5), Num(3), Num(0))

Rects ==
    { Screen,
      Rect(Num(1), Num(4), Num(3), Num(1)),
      Rect(undefined, Num(4), Num(3), undefined) }

Coords == (0 - MaxOutside) .. (Val(Screen.right) + MaxOutside)

\* arguments of moveTo; undefined is an omitted argument
TargetXs == {undefined, Num(2), Num(5)}

TargetYs == {undefined, Num(1)}

----------------------------------------------------------------------------
(* game/utils/baseUtils.js: bounded(n, min, max), n clamped to [min, max]. *)
(* A limit that is undefined or NaN compares false and does not clamp.     *)

bounded(n, min, max) ==
    LET lo == IF IsNum(min) /\ n < Val(min) THEN Val(min) ELSE n
    IN  IF IsNum(max) /\ lo > Val(max) THEN Val(max) ELSE lo

----------------------------------------------------------------------------
(* class Sprite *)

\* setBounds bringing the position into the new rectangle at once
setBounds_Reclamp(s, rect) ==
    LET b == [top |-> rect.top, right |-> rect.right,
              bottom |-> rect.bottom, left |-> rect.left]
        x == bounded(s.x, b.left, SubOpt(b.right, s.width))
        y == bounded(s.y, b.top, SubOpt(b.bottom, s.height))
    IN  [s EXCEPT !.bounds = b, !.x = x, !.y = y,
                  !.cx = x + (s.width \div 2), !.cy = y + (s.height \div 2),
                  !.vx = x - s.px, !.vy = y - s.py]

setBounds(s, rect) ==
    [s EXCEPT !.bounds = [top    |-> rect.top,
                          right  |-> rect.right,
                          bottom |-> rect.bottom,
                          left   |-> rect.left]]

\* setX clamping to bounds.right, the width forgotten
setX_NoWidth(s, nx) ==
    LET x == bounded(nx, s.bounds.left, s.bounds.right)
    IN  [s EXCEPT !.px = s.x,
                  !.x  = x,
                  !.cx = x + (s.width \div 2),
                  !.vx = x - s.x]

setX(s, nx) ==
    LET x == bounded(nx, s.bounds.left, SubOpt(s.bounds.right, s.width))
    IN  [s EXCEPT !.px = s.x,
                  !.x  = x,
                  !.cx = x + (s.width \div 2),
                  !.vx = x - s.x]

\* setY committing the candidate as it is
setY_NoClamp(s, ny) ==
    [s EXCEPT !.py = s.y,
              !.y  = ny,
              !.cy = ny + (s.height \div 2),
              !.vy = ny - s.y]

\* setY computing the velocity before the previous value is stored
setY_StaleVelocity(s, ny) ==
    LET y == bounded(ny, s.bounds.top, SubOpt(s.bounds.bottom, s.height))
    IN  [s EXCEPT !.py = s.y,
                  !.y  = y,
                  !.cy = y + (s.height \div 2),
                  !.vy = y - s.py]

setY(s, ny) ==
    LET y == bounded(ny, s.bounds.top, SubOpt(s.bounds.bottom, s.height))
    IN  [s EXCEPT !.py = s.y,
                  !.y  = y,
                  !.cy = y + (s.height \div 2),
                  !.vy = y - s.y]

\* the seek increment taken away from the target
SeekIncrement_Away(t, c, speed) == RoundDiv((c - t) * speed, SeekDivisor)

\* the seek increment without its division by 1000
SeekIncrement_NoDivisor(t, c, speed) == (t - c) * speed

\* (target - current) / 1000 * speed
SeekIncrement(t, c, speed) == RoundDiv((t - c) * speed, SeekDivisor)

\* the body of move with its three decisions as parameters: whether the
\* target counts as active, whether it has been reached, and the time scale
\* of the seek increment.  Only the variants of move below use it.
moveWith(s, x, y, m, active, arrived, seekScale) ==
    LET dx0 == IF x = 0 THEN s.x ELSE s.x + (x * s.speed * m)
        dy0 == IF y = 0 THEN s.y ELSE s.y + (y * s.speed * m)
        dx == IF active /\ s.target.x # s.x
              THEN dx0 + seekScale * SeekIncrement(s.target.x, s.x, s.speed)
              ELSE dx0
        dy == IF active /\ s.target.y # s.y
              THEN dy0 + seekScale * SeekIncrement(s.target.y, s.y, s.speed)
              ELSE dy0
        s1 == IF active /\ arrived
              THEN [s EXCEPT !.target.active = <<FALSE>>]
              ELSE s
    IN  setY(setX(s1, dx), dy)

\* move ending the seek as soon as one axis equals the target
move_ArriveOnOneAxis(s, x, y, m) ==
    LET s3 == moveWith(s, x, y, m, Truthy(s.target.active),
                       s.target.x = s.x \/ s.target.y = s.y, 1)
    IN  [s3 EXCEPT !.direction = IF x < 0 THEN "right"
                                 ELSE IF x > 0 THEN "left"
                                 ELSE s3.direction]

\* move taking the direction from the motion made, not from the delta given
move_DirectionFromVelocity(s, x, y, m) ==
    LET s3 == moveWith(s, x, y, m, Truthy(s.target.active),
                       s.target.x = s.x /\ s.target.y = s.y, 1)
    IN  [s3 EXCEPT !.direction = IF s3.vx < 0 THEN "right"
                                 ELSE IF s3.vx > 0 THEN "left"
                                 ELSE s3.direction]

\* move seeking whenever a target object exists, active or not
move_SeekWhenInactive(s, x, y, m) ==
    LET s3 == moveWith(s, x, y, m, TRUE,
                       s.target.x = s.x /\ s.target.y = s.y, 1)
    IN  [s3 EXCEPT !.direction = IF x < 0 THEN "right"
                                 ELSE IF x > 0 THEN "left"
                                 ELSE s3.direction]

\* move scaling the seek increment by the time scale
move_SeekScaled(s, x, y, m) ==
    LET s3 == moveWith(s, x, y, m, Truthy(s.target.active),
                       s.target.x = s.x /\ s.target.y = s.y, m)
    IN  [s3 EXCEPT !.direction = IF x < 0 THEN "right"
                                 ELSE IF x > 0 THEN "left"
                                 ELSE s3.direction]

\* move ending the seek in the call whose committed position is the target
move_ArriveAfterCommit(s, x, y, m) ==
    LET s3 == moveWith(s, x, y, m, Truthy(s.target.active), FALSE, 1)
        s4 == IF Truthy(s.target.active)
                 /\ s3.x = s.target.x /\ s3.y = s.target.y
              THEN [s3 EXCEPT !.target.active = <<FALSE>>]
              ELSE s3
    IN  [s4 EXCEPT !.direction = IF x < 0 THEN "right"
                                 ELSE IF x > 0 THEN "left"
                                 ELSE s4.direction]

\* move taking the target for reached when it is no further than the width
move_ArriveWithinWidth(s, x, y, m) ==
    LET s3 == moveWith(s, x, y, m, Truthy(s.target.active),
                       /\ Abs(s.target.x - s.x) <= s.width
                       /\ Abs(s.target.y - s.y) <= s.height, 1)
    IN  [s3 EXCEPT !.direction = IF x < 0 THEN "right"
                                 ELSE IF x > 0 THEN "left"
                                 ELSE s3.direction]

move(s, x, y, m) ==
    LET dx0 == IF x = 0 THEN s.x ELSE s.x + (x * s.speed * m)
        dy0 == IF y = 0 THEN s.y ELSE s.y + (y * s.speed * m)
        active == Truthy(s.target.active)
        dx == IF active /\ s.target.x # s.x
              THEN dx0 + SeekIncrement(s.target.x, s.x, s.speed)
              ELSE dx0
        dy == IF active /\ s.target.y # s.y
              THEN dy0 + SeekIncrement(s.target.y, s.y, s.speed)
              ELSE dy0
        s1 == IF active /\ s.target.x = s.x /\ s.target.y = s.y
              THEN [s EXCEPT !.target.active = <<FALSE>>]
              ELSE s
        s2 == setX(s1, dx)
        s3 == setY(s2, dy)
    IN  [s3 EXCEPT !.direction = IF x < 0 THEN "right"
                                 ELSE IF x > 0 THEN "left"
                                 ELSE s3.direction]

\* moveTo with an omitted coordinate defaulting to 0
moveTo_OmittedIsZero(s, x, y) ==
    [s EXCEPT !.target = [x      |-> IF IsNum(x) THEN Val(x) ELSE 0,
                          y      |-> IF IsNum(y) THEN Val(y) ELSE 0,
                          active |-> <<TRUE>>]]

moveTo(s, x, y) ==
    [s EXCEPT !.target = [x      |-> IF IsNum(x) THEN Val(x) ELSE s.target.x,
                          y      |-> IF IsNum(y) THEN Val(y) ELSE s.target.y,
                          active |-> <<TRUE>>]]

Sprite(x, y, width, height, speed, direction, bounds) ==
    setBounds(
        [x |-> x, y |-> y,
         px |-> x, py |-> y,
         cx |-> x + (width \div 2), cy |-> y + (height \div 2),
         vx |-> 0, vy |-> 0,
         width |-> width, height |-> height,
         radius |-> (width + height) \div 4,
         speed |-> OrElse(speed, 1),
         direction |-> OrElseStr(direction, "right"),
         target |-> [x |-> 0, y |-> 0, active |-> undefined],
         bounds |-> Rect(undefined, undefined, undefined, undefined)],
        bounds)

----------------------------------------------------------------------------
(* The callers of the sprite: construction, then any sequence of calls.    *)
(* call records the most recent call and its arguments.                    *)

(* The Game object of game/main.js that owns the sprite, as constructed *)

\* this.state before the first init(): reading a field of it throws
NoState == [current |-> "", prev |-> "", paused |-> FALSE, muted |-> FALSE,
            backgroundMusic |-> FALSE]

NoKeys == [up |-> FALSE, right |-> FALSE, down |-> FALSE, left |-> FALSE]

\* the object after the constructor: an audio context, an empty playlist and
\* the listeners; state, frame and input are set by init().  moves counts
\* the player.move calls of the last action, thrown marks a handler that an
\* exception has ended.
Game(stored) ==
    [state |-> NoState,
     frame |-> [count |-> 0],
     input |-> [active |-> "keyboard", keyboard |-> NoKeys],
     images |-> FALSE,
     playlist |-> << >>,
     audioCtx |-> "running",
     localStorage |-> stored,
     overlay |-> TRUE,
     canvas |-> TRUE,
     animationFrames |-> {},
     loading |-> 0,
     moves |-> 0,
     thrown |-> FALSE]

NoRect == Rect(undefined, undefined, undefined, undefined)

Call(op, x, y, m, rect) == [op |-> op, x |-> x, y |-> y, m |-> m, rect |-> rect]

InRange(s) == s.x \in Coords /\ s.y \in Coords

Init ==
    \E x \in InitXs, y \in InitYs, w \in Widths, h \in Heights,
       sp \in SpeedArgs, d \in DirectionArgs, b \in Rects :
        /\ sprite = Sprite(x, y, w, h, sp, d, b)
        /\ call = Call("new", Num(x), Num(y), undefined, b)
        /\ game = Game("")

Move ==
    \E x \in Deltas, y \in Deltas, m \in TimeScales :
        /\ InRange(move(sprite, x, y, m))
        /\ sprite' = move(sprite, x, y, m)
        /\ call' = Call("move", Num(x), Num(y), Num(m), NoRect)
        /\ UNCHANGED game

MoveTo ==
    \E x \in TargetXs, y \in TargetYs :
        /\ sprite' = moveTo(sprite, x, y)
        /\ call' = Call("moveTo", x, y, undefined, NoRect)
        /\ UNCHANGED game

SetBounds ==
    \E rect \in Rects :
        /\ sprite' = setBounds(sprite, rect)
        /\ call' = Call("setBounds", undefined, undefined, undefined, rect)
        /\ UNCHANGED game

Next == Move \/ MoveTo \/ SetBounds

Spec == Init /\ [][Next]_vars

----------------------------------------------------------------------------
(* The Game driver of game/main.js *)

\* most animation-frame callbacks pending, loads in flight and playlist
\* entries
MaxFrames == 2

MaxLoading == 2

MaxPlaylist == 2

\* handles of requestAnimationFrame: opaque, never 0, distinct while in use
Handles == 1..(MaxFrames + 2)

\* event.code of the key events delivered: one arrow key, pause, game over
Codes == {"ArrowLeft", "Space", "Enter"}

\* ids of the overlay nodes clicked
Targets == {"mute", "pause", "button"}

\* localStorage.getItem(key) of the muted key at the start: no item ("") or
\* 'false', a game that starts unmuted
StoredAtStart == {"", "false"}

\* F applied to the value of e, which is evaluated once
With(e, F(_)) == CHOOSE r \in {F(v) : v \in {e}} : TRUE

Throw(g) == [g EXCEPT !.thrown = TRUE]

\* the event loop at the start and at the end of a task
Begin(g) == [g EXCEPT !.moves = 0, !.thrown = FALSE]

Handled(g) == [g EXCEPT !.thrown = FALSE]

\* this.state, this.frame and this.input are undefined
Unset(g) == g.state.current = ""

requestAnimationFrame(g) ==
    CHOOSE h \in Handles :
        /\ h \notin g.animationFrames \cup {g.frame.count}
        /\ \A k \in Handles :
             k \notin g.animationFrames \cup {g.frame.count} => h <= k

cancelAnimationFrame(g, handle) ==
    [g EXCEPT !.animationFrames = @ \ {handle}]

setState(g, current) ==
    [g EXCEPT !.state.prev = g.state.current, !.state.current = current]

requestFrame(g, resumed) ==
    With(g, LAMBDA s :
        LET count == requestAnimationFrame(s)
        IN  [s EXCEPT !.animationFrames = @ \cup {count},
                      !.frame.count = count])

\* the argument some callers pass is not used
cancelFrame(g) == cancelAnimationFrame(g, g.frame.count)

\* init: frame, state and input are replaced, images emptied; the write to
\* this.canvas.width throws once destroy() has deleted the canvas
init(g) ==
    LET g1 == [g EXCEPT !.frame.count = 0,
                        !.state = [current |-> "loading", prev |-> "",
                                   paused |-> FALSE,
                                   muted |-> g.localStorage = "true",
                                   backgroundMusic |-> FALSE],
                        !.input = [active |-> "keyboard", keyboard |-> NoKeys],
                        !.images = FALSE]
    IN  IF ~g1.canvas THEN Throw(g1) ELSE g1

\* load: init, then the asset list is requested; create runs when it resolves
load(g) ==
    LET g1 == init(g)
    IN  IF g1.thrown THEN g1 ELSE [g1 EXCEPT !.loading = @ + 1]

playback(g, key) ==
    IF g.state.muted THEN g
    ELSE [g EXCEPT !.playlist = Append(@, key)]

stopPlayback(g, key) ==
    [g EXCEPT !.playlist = SelectSeq(@, LAMBDA s : s # key)]

RECURSIVE stopEach(_, _)
stopEach(g, keys) ==
    IF keys = << >> THEN g
    ELSE stopEach(stopPlayback(g, Head(keys)), Tail(keys))

stopPlaylist(g) == stopEach(g, g.playlist)

\* the player.move calls of a play() in state 'play': one for the keyboard,
\* one for touch, none for the mouse
movePlayer(g) ==
    LET g1 == IF g.input.active = "keyboard"
              THEN [g EXCEPT !.moves = @ + 1] ELSE g
    IN  IF g1.input.active = "touch"
        THEN [g1 EXCEPT !.moves = @ + 1] ELSE g1

\* the steps of play() once the canvas, the images and the overlay are there
playWith(g) ==
    LET g2 == IF g.state.current = "ready" /\ g.state.prev = "loading"
              THEN setState(g, "ready") ELSE g
        g3 == IF g2.state.current = "play"
              THEN LET g4 == IF ~g2.state.muted /\ ~g2.state.backgroundMusic
                             THEN playback([g2 EXCEPT
                                              !.state.backgroundMusic = TRUE],
                                           "backgroundMusic")
                             ELSE g2
                   IN  movePlayer(g4)
              ELSE g2
    IN  requestFrame(g3, FALSE)

\* play drawing nothing when the canvas, the images or the overlay are gone
play_DrawsNothingWhenGone(g) ==
    With(IF g.state.current = "stop" THEN cancelFrame(g) ELSE g, LAMBDA g1 :
        playWith(g1))

\* play: this.canvas.width throws without a canvas, drawImage throws on the
\* undefined background image of an emptied this.images, overlay.setLives
\* throws without an overlay; the next frame is requested at the end
play(g) ==
    With(IF g.state.current = "stop" THEN cancelFrame(g) ELSE g, LAMBDA g1 :
        IF ~g1.canvas THEN Throw(g1)
        ELSE IF ~g1.images THEN Throw(g1)
        ELSE IF ~g1.overlay THEN Throw(g1)
        ELSE playWith(g1))

\* create: the player is made, overlay.setStyles throws without an overlay
create(g) ==
    IF ~g.overlay THEN Throw(g)
    ELSE play(setState(g, "ready"))

suspend(g) == [g EXCEPT !.audioCtx = "suspended"]

resume(g) == [g EXCEPT !.audioCtx = "running"]

pause(g) ==
    IF g.state.current # "play" THEN g
    ELSE LET g1 == [g EXCEPT !.state.paused = ~g.state.paused]
         IN  IF ~g1.overlay THEN Throw(g1)
             ELSE IF g1.state.paused THEN suspend(cancelFrame(g1))
             ELSE LET g2 == requestFrame(g1, TRUE)
                  IN  IF ~g2.state.muted THEN resume(g2) ELSE g2

mute(g) ==
    LET stored == IF g.localStorage = "true" THEN "false" ELSE "true"
        g1 == [g EXCEPT !.localStorage = stored,
                        !.state.muted = stored = "true"]
    IN  IF ~g1.overlay THEN Throw(g1)
        ELSE IF g1.state.muted THEN suspend(g1)
        ELSE IF ~g1.state.paused THEN resume(g1)
        ELSE g1

\* handleClicks without the return while the game is loading
handleClicks_NoLoadingGuard(g, target) ==
    IF Unset(g) THEN Throw(g)
    ELSE IF target = "mute" THEN mute(g)
    ELSE IF target = "pause" THEN pause(g)
    ELSE IF target = "button"
         THEN LET g1 == mute(setState(g, "play"))
              IN  IF g1.thrown THEN g1 ELSE mute(g1)
    ELSE g

handleClicks(g, target) ==
    IF Unset(g) THEN Throw(g)
    ELSE IF g.state.current = "loading" THEN g
    ELSE IF target = "mute" THEN mute(g)
    ELSE IF target = "pause" THEN pause(g)
    ELSE IF target = "button"
         THEN LET g1 == mute(setState(g, "play"))
              IN  IF g1.thrown THEN g1 ELSE mute(g1)
    ELSE g

setKey(g, code, down) ==
    [g EXCEPT !.input.keyboard =
        [up    |-> IF code = "ArrowUp" THEN down ELSE @.up,
         right |-> IF code = "ArrowRight" THEN down ELSE @.right,
         down  |-> IF code = "ArrowDown" THEN down ELSE @.down,
         left  |-> IF code = "ArrowLeft" THEN down ELSE @.left]]

handleKeyboardInput(g, type, code) ==
    IF Unset(g) THEN Throw(g)
    ELSE
    LET g0 == [g EXCEPT !.input.active = "keyboard"]
        g1 == IF type = "keydown" /\ g0.state.current = "play"
              THEN setKey(g0, code, TRUE) ELSE g0
        g2 == IF type = "keyup" /\ g1.state.current = "play"
              THEN LET k == setKey(g1, code, FALSE)
                       p == IF code = "Space" THEN pause(k) ELSE k
                   IN  IF p.thrown THEN p
                       ELSE IF code = "Enter" THEN setState(p, "over") ELSE p
              ELSE g1
        g3 == IF ~g2.thrown /\ type = "keydown" /\ g2.state.current = "ready"
              THEN setState(g2, "play") ELSE g2
    IN  IF ~g3.thrown /\ type = "keydown" /\ g3.state.current = "over"
        THEN load(g3) ELSE g3

handleMouseMove(g) ==
    IF Unset(g) THEN Throw(g) ELSE [g EXCEPT !.input.active = "mouse"]

handleTouchMove(g) ==
    IF Unset(g) THEN Throw(g) ELSE [g EXCEPT !.input.active = "touch"]

\* the handler of Koji's 'change': this.frame is read by cancelFrame
change(g) ==
    IF Unset(g) THEN Throw(g) ELSE load(cancelFrame(g))

\* destroy: the listeners stay, removeEventListener is given other functions
\* than those added; a second call throws on the deleted overlay
destroy(g) ==
    IF Unset(g) THEN Throw(g)
    ELSE LET g1 == stopPlaylist(setState(g, "stop"))
         IN  IF ~g1.overlay THEN Throw(g1)
             ELSE [g1 EXCEPT !.overlay = FALSE, !.canvas = FALSE]

\* one animation frame: the callbacks pending at its start run one after the
\* other, each is play(); a callback cancelled by an earlier one does not run
RECURSIVE runCallbacks(_, _)
runCallbacks(g, callbacks) ==
    IF callbacks = {} THEN g
    ELSE With(CHOOSE c \in callbacks : \A d \in callbacks : c <= d, LAMBDA h :
         With(Handled(play([g EXCEPT !.animationFrames = @ \ {h}])), LAMBDA g1 :
         With((callbacks \ {h}) \cap g1.animationFrames, LAMBDA rest :
             runCallbacks(g1, rest))))

Bounded(g) ==
    /\ Cardinality(g.animationFrames) <= MaxFrames
    /\ g.loading <= MaxLoading
    /\ Len(g.playlist) <= MaxPlaylist

GameInit ==
    /\ sprite = Sprite(0, 0, 2, 2, Num(50), undefined, Screen)
    /\ call = Call("new", Num(0), Num(0), undefined, Screen)
    /\ \E stored \in StoredAtStart : game = Game(stored)

\* a handler has run: an exception it threw is reported and the event loop
\* goes on; the bounds cut the growth of the collections
Ran(g) ==
    /\ game' = Handled(g)
    /\ Bounded(game')

\* the page calls load() on the game it has constructed
Load ==
    /\ Unset(game)
    /\ Ran(load(Begin(game)))
    /\ UNCHANGED <<sprite, call>>

\* the asset list resolves: the assets are stored and create() runs
LoadDone ==
    /\ game.loading > 0
    /\ Ran(create([Begin(game) EXCEPT !.loading = @ - 1, !.images = TRUE]))
    /\ UNCHANGED <<sprite, call>>

AnimationFrame ==
    /\ game.animationFrames # {}
    /\ Ran(runCallbacks(Begin(game), game.animationFrames))
    /\ UNCHANGED <<sprite, call>>

HandleClicks ==
    /\ \E target \in Targets : Ran(handleClicks(Begin(game), target))
    /\ UNCHANGED <<sprite, call>>

HandleKeyboardInput ==
    /\ \E type \in {"keydown", "keyup"}, code \in Codes :
          Ran(handleKeyboardInput(Begin(game), type, code))
    /\ UNCHANGED <<sprite, call>>

HandleMouseMove ==
    /\ Ran(handleMouseMove(Begin(game)))
    /\ UNCHANGED <<sprite, call>>

HandleTouchMove ==
    /\ Ran(handleTouchMove(Begin(game)))
    /\ UNCHANGED <<sprite, call>>

Change ==
    /\ Ran(change(Begin(game)))
    /\ UNCHANGED <<sprite, call>>

Destroy ==
    /\ Ran(destroy(Begin(game)))
    /\ UNCHANGED <<sprite, call>>

GameNext ==
    \/ Load
    \/ LoadDone
    \/ AnimationFrame
    \/ HandleClicks
    \/ HandleKeyboardInput
    \/ HandleMouseMove
    \/ HandleTouchMove
    \/ Change
    \/ Destroy

SpecGame == GameInit /\ [][GameNext]_vars

\* the browser runs an animation frame while callbacks are pending
SpecGameFair == SpecGame /\ WF_vars(AnimationFrame)

----------------------------------------------------------------------------
(* The driver with a record of the event last delivered: the same steps  *)
(* as above, each writing into call the event it handles, with the id of *)
(* the node clicked or the type and code of the key.                     *)

Event(op, target, code) == [op |-> op, target |-> target, code |-> code]

Delivered(op, target, code) ==
    /\ call' = Event(op, target, code)
    /\ UNCHANGED sprite

LoadEvent ==
    /\ Unset(game)
    /\ Ran(load(Begin(game)))
    /\ Delivered("load", "", "")

LoadDoneEvent ==
    /\ game.loading > 0
    /\ Ran(create([Begin(game) EXCEPT !.loading = @ - 1, !.images = TRUE]))
    /\ Delivered("loaded", "", "")

AnimationFrameEvent ==
    /\ game.animationFrames # {}
    /\ Ran(runCallbacks(Begin(game), game.animationFrames))
    /\ Delivered("frame", "", "")

ClickEvent ==
    \E target \in Targets :
        /\ Ran(handleClicks(Begin(game), target))
        /\ Delivered("click", target, "")

KeyEvent ==
    \E type \in {"keydown", "keyup"}, code \in Codes :
        /\ Ran(handleKeyboardInput(Begin(game), type, code))
        /\ Delivered(type, "", code)

MouseMoveEvent ==
    /\ Ran(handleMouseMove(Begin(game)))
    /\ Delivered("mousemove", "", "")

TouchMoveEvent ==
    /\ Ran(handleTouchMove(Begin(game)))
    /\ Delivered("touchmove", "", "")

ChangeEvent ==
    /\ Ran(change(Begin(game)))
    /\ Delivered("change", "", "")

DestroyEvent ==
    /\ Ran(destroy(Begin(game)))
    /\ Delivered("destroy", "", "")

EventNext ==
    \/ LoadEvent
    \/ LoadDoneEvent
    \/ AnimationFrameEvent
    \/ ClickEvent
    \/ KeyEvent
    \/ MouseMoveEvent
    \/ TouchMoveEvent
    \/ ChangeEvent
    \/ DestroyEvent

EventInit ==
    /\ sprite = Sprite(0, 0, 2, 2, Num(50), undefined, Screen)
    /\ call = Event("new", "", "")
    /\ \E stored \in StoredAtStart : game = Game(stored)

SpecGameEvents == EventInit /\ [][EventNext]_vars

----------------------------------------------------------------------------
(* Vocabulary of the properties *)

\* every field of bounds is a number and the clamping ranges are not empty
WellFormed(s) ==
    /\ IsNum(s.bounds.top) /\ IsNum(s.bounds.right)
    /\ IsNum(s.bounds.bottom) /\ IsNum(s.bounds.left)
    /\ Val(s.bounds.right) - s.width >= Val(s.bounds.left)
    /\ Val(s.bounds.bottom) - s.height >= Val(s.bounds.top)

\* the point (x, y) lies in the clamping rectangle of s
PointInside(s, x, y) ==
    /\ WellFormed(s)
    /\ Val(s.bounds.left) <= x /\ x <= Val(s.bounds.right) - s.width
    /\ Val(s.bounds.top) <= y /\ y <= Val(s.bounds.bottom) - s.height

InsideRect(s) == PointInside(s, s.x, s.y)

\* the two-sided clamp of c to [lo, hi], lo <= hi
Clamp(c, lo, hi) == IF c < lo THEN lo ELSE IF c > hi THEN hi ELSE c

\* v lies between a and b, inclusive, whichever is the larger
Between(v, a, b) == (a <= v /\ v <= b) \/ (b <= v /\ v <= a)

IsMove(c) == c.op = "move"

ZeroMove(c) == c.op = "move" /\ c.x = Num(0) /\ c.y = Num(0)

----------------------------------------------------------------------------
(* C1: after every move call on a sprite whose bounds are well formed    *)
(* (right - width >= left, bottom - height >= top), x lies in            *)
(* [left, right - width] and y in [top, bottom - height].                *)
C1_ClampingInvariant ==
    (IsMove(call) /\ WellFormed(sprite)) => InsideRect(sprite)

\* a move that was stopped at the right edge coming from outside of it
C1_Witness ==
    /\ IsMove(call) /\ WellFormed(sprite)
    /\ call.x = Num(1) /\ call.m = Num(1)
    /\ sprite.px > Val(sprite.bounds.right) - sprite.width
    /\ sprite.x = Val(sprite.bounds.right) - sprite.width

(* C2: in every reachable state cx = x + width/2, cy = y + height/2,     *)
(* vx = x - px and vy = y - py.                                          *)
C2_DerivedFields ==
    /\ 2 * sprite.cx = 2 * sprite.x + sprite.width
    /\ 2 * sprite.cy = 2 * sprite.y + sprite.height
    /\ sprite.vx = sprite.x - sprite.px
    /\ sprite.vy = sprite.y - sprite.py

\* a move that changed both coordinates
C2_Witness ==
    /\ IsMove(call)
    /\ sprite.x # sprite.px /\ sprite.y # sprite.py
    /\ sprite.px # 0

(* C3: the target is inactive after construction; it becomes active only *)
(* by moveTo, which also sets the coordinates given and keeps an active  *)
(* target active; it becomes inactive only by a move that starts with    *)
(* x = target.x and y = target.y, and every such move of an active       *)
(* target makes it inactive; setBounds and every other move leave        *)
(* target.active as it is.                                               *)
C3_TargetStateMachine ==
    /\ [](call.op = "new" => ~Truthy(sprite.target.active))
    /\ [][ LET on == Truthy(sprite.target.active)
               on2 == Truthy(sprite'.target.active)
               at == sprite.x = sprite.target.x /\ sprite.y = sprite.target.y
           IN  /\ (~on /\ on2) => call'.op = "moveTo"
               /\ (on /\ ~on2) => (IsMove(call') /\ at)
               /\ call'.op = "moveTo" => on2
               /\ (IsMove(call') /\ on /\ at) => ~on2
               /\ call'.op \in {"setBounds", "move"} /\ ~(on /\ at)
                    => sprite'.target = sprite.target ]_vars

\* a seek that has ended
C3_Witness ==
    /\ IsMove(call)
    /\ sprite.target.active = <<FALSE>>
    /\ sprite.target.x # 0

(* C4: setBounds replaces exactly the fields of bounds that the          *)
(* rectangle supplies; a field that is not supplied keeps its value.     *)
C4_SetBoundsKeepsUnsupplied ==
    [][ call'.op = "setBounds" =>
          \A f \in {"top", "right", "bottom", "left"} :
              sprite'.bounds[f] = IF IsNum(call'.rect[f])
                                  THEN call'.rect[f]
                                  ELSE sprite.bounds[f] ]_vars

(* C5: a move with dx < 0 leaves direction = "right", with dx > 0        *)
(* direction = "left", with dx = 0 the direction it had, whatever the    *)
(* change of x that clamping and seeking make of it.                     *)
C5_DirectionFromRawDelta ==
    [][ IsMove(call') =>
          sprite'.direction = IF Val(call'.x) < 0 THEN "right"
                              ELSE IF Val(call'.x) > 0 THEN "left"
                              ELSE sprite.direction ]_vars

\* dx > 0, and x went down
C5_Witness ==
    /\ IsMove(call) /\ call.x = Num(1) /\ call.m = Num(1)
    /\ sprite.vx < 0
    /\ sprite.direction = "left"

(* C6, as stated: with the target not active, move(0, 0, t) leaves x, y  *)
(* and direction unchanged in every reachable state.                     *)
C6_ZeroDeltaHoldEverywhere ==
    [][ (ZeroMove(call') /\ ~Truthy(sprite.target.active)) =>
          /\ sprite'.x = sprite.x
          /\ sprite'.y = sprite.y
          /\ sprite'.direction = sprite.direction ]_vars

(* C6, amended: with the target not active and the position inside the   *)
(* clamping rectangle, move(0, 0, t) leaves x, y and direction           *)
(* unchanged; the direction is unchanged wherever the sprite is.         *)
C6_ZeroDeltaHold ==
    [][ (ZeroMove(call') /\ ~Truthy(sprite.target.active)) =>
          /\ InsideRect(sprite) => (sprite'.x = sprite.x /\ sprite'.y = sprite.y)
          /\ sprite'.direction = sprite.direction ]_vars

\* a zero move of a sprite facing left, inside, with a target set aside
C6_Witness ==
    /\ ZeroMove(call) /\ call.m = Num(1)
    /\ sprite.target.active = <<FALSE>>
    /\ InsideRect(sprite)
    /\ sprite.vx = 0 /\ sprite.vy = 0
    /\ sprite.x # sprite.target.x
    /\ sprite.direction = "left"

(* C7: after move(dx, dy, m), with well-formed bounds, x and y are the   *)
(* candidates clamped to [left, right - width] and [top, bottom -        *)
(* height], the candidate of an axis being the coordinate itself for a   *)
(* zero delta and coordinate + delta*speed*m otherwise, plus             *)
(* (target - coordinate)/1000*speed, not scaled by m, when the target is *)
(* active and differs on that axis; px and py are the x and y of before. *)
C7_ReferenceStep ==
    [][ (IsMove(call') /\ WellFormed(sprite)) =>
          LET dx == Val(call'.x)
              dy == Val(call'.y)
              m == Val(call'.m)
              on == Truthy(sprite.target.active)
              seekX == IF on /\ sprite.x # sprite.target.x
                       THEN RoundDiv((sprite.target.x - sprite.x) * sprite.speed, 1000)
                       ELSE 0
              seekY == IF on /\ sprite.y # sprite.target.y
                       THEN RoundDiv((sprite.target.y - sprite.y) * sprite.speed, 1000)
                       ELSE 0
              candX == (IF dx = 0 THEN sprite.x ELSE sprite.x + dx * sprite.speed * m) + seekX
              candY == (IF dy = 0 THEN sprite.y ELSE sprite.y + dy * sprite.speed * m) + seekY
          IN  /\ sprite'.x = Clamp(candX, Val(sprite.bounds.left),
                                   Val(sprite.bounds.right) - sprite.width)
              /\ sprite'.y = Clamp(candY, Val(sprite.bounds.top),
                                   Val(sprite.bounds.bottom) - sprite.height)
              /\ sprite'.px = sprite.x
              /\ sprite'.py = sprite.y ]_vars

\* the second step of the scenario: from x = 1, move(-1, 0, 1) at speed 1
C7_Witness ==
    /\ IsMove(call) /\ call.x = Num(-1) /\ call.y = Num(0) /\ call.m = Num(1)
    /\ sprite.speed = 1 /\ sprite.bounds = Screen
    /\ sprite.px = 1 /\ sprite.x = 0
    /\ sprite.py = 0 /\ sprite.y = 0
    /\ sprite.direction = "right"

(* C8: moveTo(tx, ty) makes the target active with the coordinates       *)
(* given, an omitted coordinate keeping the one the target had, and      *)
(* changes nothing else of the sprite.                                   *)
C8_MoveToEffect ==
    [][ call'.op = "moveTo" =>
          /\ sprite'.target =
                [x |-> IF IsNum(call'.x) THEN Val(call'.x) ELSE sprite.target.x,
                 y |-> IF IsNum(call'.y) THEN Val(call'.y) ELSE sprite.target.y,
                 active |-> <<TRUE>>]
          /\ [sprite' EXCEPT !.target = sprite.target] = sprite ]_vars

\* moveTo(undefined, 1) on a target whose x is 2
C8_Witness ==
    /\ call.op = "moveTo" /\ call.x = undefined /\ call.y = Num(1)
    /\ sprite.target = [x |-> 2, y |-> 1, active |-> <<TRUE>>]

(* C10, as stated: with an active target, after move(0, 0, t) each       *)
(* coordinate lies between its value before the call and the target      *)
(* coordinate, for every speed and every starting position.              *)
C10_NeverOvershootsAnywhere ==
    [][ (ZeroMove(call') /\ Truthy(sprite.target.active)) =>
          /\ Between(sprite'.x, sprite.x, sprite.target.x)
          /\ Between(sprite'.y, sprite.y, sprite.target.y) ]_vars

(* C10, amended: the same for every speed with 0 < speed <= 1000 and     *)
(* every starting position inside the clamping rectangle.                *)
C10_NeverOvershoots ==
    [][ (/\ ZeroMove(call') /\ Truthy(sprite.target.active)
         /\ 0 < sprite.speed /\ sprite.speed <= 1000
         /\ InsideRect(sprite)) =>
          /\ Between(sprite'.x, sprite.x, sprite.target.x)
          /\ Between(sprite'.y, sprite.y, sprite.target.y) ]_vars

\* a seek step at speed 500 that moved x towards the target, short of it
C10_Witness ==
    /\ ZeroMove(call) /\ call.m = Num(1)
    /\ Truthy(sprite.target.active)
    /\ sprite.speed = 500
    /\ PointInside(sprite, sprite.px, sprite.py)
    /\ sprite.vx # 0
    /\ sprite.x # sprite.target.x

----------------------------------------------------------------------------
(* Seeking alone: a sprite is constructed, moveTo sets a target inside   *)
(* the clamping rectangle, and the caller then calls move(0, 0, 1) once  *)
(* per frame for as long as it has an effect.  The speeds are those      *)
(* whose increments the grid resolves over the distances of the          *)
(* rectangle.                                                            *)

SeekScreen == Rect(Num(0), Num(10), Num(6), Num(0))

\* x = 9 lies outside the clamping range [0, 8]
SeekXs == {0, 3, 8, 9}

SeekYs == {0, 4}

SeekTargetXs == {0, 4, 8}

SeekTargetYs == {0, 2}

SeekSpeeds == {250, 500, 1000, 1500, 2000}

SeekInit ==
    \E x \in SeekXs, y \in SeekYs, w \in Widths, h \in Heights,
       sp \in SeekSpeeds, tx \in SeekTargetXs, ty \in SeekTargetYs :
        /\ sprite = moveTo(Sprite(x, y, w, h, Num(sp), undefined, SeekScreen),
                           Num(tx), Num(ty))
        /\ call = Call("moveTo", Num(tx), Num(ty), undefined, NoRect)
        /\ game = Game("")

SeekStep ==
    /\ sprite' = move(sprite, 0, 0, 1)
    /\ call' = Call("move", Num(0), Num(0), Num(1), NoRect)
    /\ UNCHANGED game

SeekNext == SeekStep

SpecSeek == SeekInit /\ [][SeekNext]_vars /\ WF_vars(SeekStep)

Min(a, b) == IF a <= b THEN a ELSE b

\* each coordinate is within d of the target
WithinOfTarget(s, d) ==
    /\ Abs(s.target.x - s.x) <= d
    /\ Abs(s.target.y - s.y) <= d

\* each coordinate is as close to the target as the rounding of the seek
\* increment lets a speed below 2000 bring it: the distance times
\* min(speed, 2000 - speed) / 1000 is at most half a grid step
SeekSettled(s) ==
    \A g \in {Min(s.speed, 2000 - s.speed)},
       dx \in {Abs(s.target.x - s.x)}, dy \in {Abs(s.target.y - s.y)} :
        /\ 2 * dx * g <= 1000
        /\ 2 * dy * g <= 1000

(* C9, as stated: for any positive speed, repeated move(0, 0, 1) calls   *)
(* eventually bring x and y within a chosen distance of a target inside  *)
(* the clamping rectangle; the distance chosen is 2 grid steps.          *)
C9_SeekApproachesAtAnySpeed == <>WithinOfTarget(sprite, 2)

(* C9, amended: for any speed with 0 < speed < 2000 the calls eventually *)
(* bring x and y as close to the target as the rounding of the           *)
(* increment allows, |target - x| * min(speed, 2000 - speed) / 1000      *)
(* being at most half a grid step, and no closer in general.             *)
C9_SeekSettles == (sprite.speed < 2000) ~> SeekSettled(sprite)

\* a seek at speed 500 that has moved x and come to rest short of the target
C9_Witness ==
    /\ ZeroMove(call)
    /\ sprite.speed = 500
    /\ Truthy(sprite.target.active)
    /\ SeekSettled(sprite)
    /\ sprite.vx # 0
    /\ sprite.x # sprite.target.x

----------------------------------------------------------------------------
(* C11, as stated: between move calls the sprite never sits exactly on   *)
(* an active target that the preceding move reached.                     *)
C11_InactiveOnArrival ==
    ~(/\ IsMove(call)
      /\ Truthy(sprite.target.active)
      /\ sprite.x = sprite.target.x /\ sprite.y = sprite.target.y)

(* C11, amended: a move makes an active target inactive exactly when x   *)
(* and y equal the target at the start of the call, so the seek ends in  *)
(* the move call after the one whose committed position is the target,   *)
(* and between the two the sprite sits on the target with it active.     *)
C11_InactiveOneMoveAfterArrival ==
    [][ (IsMove(call') /\ Truthy(sprite.target.active)) =>
          (Truthy(sprite'.target.active) <=>
             ~(sprite.x = sprite.target.x /\ sprite.y = sprite.target.y)) ]_vars

\* the move that brought x onto the target has left the target active
C11_Witness ==
    /\ IsMove(call)
    /\ Truthy(sprite.target.active)
    /\ sprite.x = sprite.target.x /\ sprite.y = sprite.target.y
    /\ sprite.vx # 0

(* C12, as stated: in every reachable state with well-formed bounds x is *)
(* in [left, right - width] and y in [top, bottom - height].             *)
C12_AlwaysClamped == WellFormed(sprite) => InsideRect(sprite)

(* C12, amended: with well-formed bounds the position is inside the      *)
(* rectangle after every move, and moveTo keeps it inside; only the      *)
(* constructor and setBounds, which do not clamp, can leave it outside,  *)
(* until the next move.                                                  *)
C12_ClampedByMove ==
    [][ /\ (IsMove(call') /\ WellFormed(sprite')) => InsideRect(sprite')
        /\ (call'.op = "moveTo" /\ InsideRect(sprite)) => InsideRect(sprite') ]_vars

\* a move(0, 0, m) that brought back a sprite that a smaller rectangle
\* had left outside
C12_Witness ==
    /\ ZeroMove(call)
    /\ sprite.bounds = Rect(Num(1), Num(4), Num(3), Num(1))
    /\ sprite.px = 3 /\ sprite.x = 2
    /\ sprite.py = 0 /\ sprite.y = 1

(* C13: setBounds changes bounds only: x, y, px, py, cx, cy, vx, vy,     *)
(* direction and target are as before, also when the position is         *)
(* outside the new rectangle.                                            *)
C13_SetBoundsFrame ==
    [][ call'.op = "setBounds" =>
          [sprite' EXCEPT !.bounds = sprite.bounds] = sprite ]_vars

\* a setBounds that left a moving, seeking sprite outside the new rectangle
C13_Witness ==
    /\ call.op = "setBounds"
    /\ WellFormed(sprite) /\ ~InsideRect(sprite)
    /\ sprite.vx # 0
    /\ Truthy(sprite.target.active)

\* a coordinate of the target lies outside the clamping rectangle
TargetOutside(s) ==
    \/ IsNum(s.bounds.left) /\ s.target.x < Val(s.bounds.left)
    \/ IsNum(s.bounds.right) /\ s.target.x > Val(s.bounds.right) - s.width
    \/ IsNum(s.bounds.top) /\ s.target.y < Val(s.bounds.top)
    \/ IsNum(s.bounds.bottom) /\ s.target.y > Val(s.bounds.bottom) - s.height

(* C15, as stated: no move makes inactive a target that has a coordinate *)
(* outside the clamping rectangle.                                       *)
C15_OutsideTargetStaysActive ==
    [][ (/\ IsMove(call') /\ Truthy(sprite.target.active)
         /\ TargetOutside(sprite)) =>
          Truthy(sprite'.target.active) ]_vars

(* C15, amended: with well-formed bounds, no move makes inactive a       *)
(* target that has a coordinate outside the clamping rectangle, provided *)
(* the sprite is inside the rectangle when the move starts, as it is     *)
(* after every move; a sprite that the constructor or setBounds left     *)
(* outside, exactly on the target, ends the seek in its first move.      *)
C15_OutsideTargetStaysActiveInside ==
    [][ (/\ IsMove(call') /\ Truthy(sprite.target.active)
         /\ TargetOutside(sprite) /\ WellFormed(sprite)
         /\ (InsideRect(sprite) \/ IsMove(call))) =>
          Truthy(sprite'.target.active) ]_vars

\* a sprite pressed on the right edge by a seek it cannot complete
C15_Witness ==
    /\ IsMove(call) /\ WellFormed(sprite)
    /\ Truthy(sprite.target.active)
    /\ sprite.target.x = 5
    /\ sprite.px = Val(sprite.bounds.right) - sprite.width
    /\ sprite.x = sprite.px
    /\ sprite.speed = 1000

----------------------------------------------------------------------------
(* Properties of the Game driver *)

(* C14: in one animation frame the driver calls the player's move at     *)
(* most once.                                                             *)
C14_OneMovePerFrame == game.moves <= 1

(* C16: at most one animation-frame callback of the game loop is         *)
(* pending.                                                               *)
C16_OneFramePending == Cardinality(game.animationFrames) <= 1

\* destroy() has run to its end
Destroyed(g) == ~g.canvas

(* C17: once destroy() has set the state to 'stop' and deleted the       *)
(* canvas, no step requests a frame, and eventually no frame callback is *)
(* pending, for ever.  The game stays destroyed, so "from some time on,  *)
(* if destroyed then nothing pending" says it of every destroy().        *)
C17_DestroyStopsLoop ==
    /\ [][Destroyed(game) =>
            /\ Destroyed(game')
            /\ game'.animationFrames \subseteq game.animationFrames]_vars
    /\ <>[](Destroyed(game) => game.animationFrames = {})

\* the loop that was running when destroy() was called has ended
C17_Witness ==
    /\ Destroyed(game)
    /\ game.state.current = "stop"
    /\ ~game.state.paused
    /\ game.images
    /\ game.frame.count # 0
    /\ game.animationFrames = {}

(* C18: in a game that has not been destroyed, the audio context is      *)
(* suspended if and only if the game is paused or muted.                 *)
C18_SuspendedIffPausedOrMuted ==
    (~Unset(game) /\ ~Destroyed(game)) =>
        ((game.audioCtx = "suspended") <=>
            (game.state.paused \/ game.state.muted))

(* C19: the playlist holds at most one 'backgroundMusic' entry.          *)
C19_OneBackgroundMusic ==
    Cardinality({i \in DOMAIN game.playlist :
                    game.playlist[i] = "backgroundMusic"}) <= 1

(* C20: in a game that has not been destroyed, two consecutive mute()    *)
(* calls leave state.muted, the persisted flag and the state of the      *)
(* audio context as they were, and after each of them state.muted is the *)
(* persisted flag.                                                       *)
C20_DoubleMuteIdentity ==
    (~Unset(game) /\ ~Destroyed(game)) =>
        LET g1 == mute(game)
            g2 == mute(g1)
        IN  /\ g2.state.muted = game.state.muted
            /\ (g2.localStorage = "true") = (game.localStorage = "true")
            /\ g2.audioCtx = game.audioCtx
            /\ g1.state.muted = (g1.localStorage = "true")
            /\ g2.state.muted = (g2.localStorage = "true")

(* C21: while state.current is 'loading', no click, key-down or key-up   *)
(* event changes state.current, state.paused, state.muted or the         *)
(* keyboard direction flags; and pause() changes nothing unless          *)
(* state.current is 'play', in particular when the pause node is         *)
(* clicked in any other state.                                           *)
C21_LoadingGuard ==
    [][ /\ (game.state.current = "loading"
            /\ call'.op \in {"click", "keydown", "keyup"}) =>
               /\ game'.state.current = "loading"
               /\ game'.state.paused = game.state.paused
               /\ game'.state.muted = game.state.muted
               /\ game'.input.keyboard = game.input.keyboard
        /\ game.state.current # "play" => pause(game) = game
        /\ (/\ ~Unset(game) /\ game.state.current # "play"
            /\ call'.op = "click" /\ call'.target = "pause") =>
               game' = Begin(game) ]_vars

\* the start button was clicked while the assets were loading
C21_Witness ==
    /\ call.op = "click" /\ call.target = "button"
    /\ game.state.current = "loading"
    /\ game.loading > 0
    /\ ~Destroyed(game)

====
